---- MODULE Spec2Model ----
(***************************************************************************)
(* Model of poolbot.py (Democrit-EVM pool bot): the Signer, the            *)
(* VaultCheckServer with its two RPC methods, and the server's run scope.  *)
(* The main thread constructs Signer and VaultCheckServer and enters run;  *)
(* pool workers handle signvaultcheck / getinfo requests concurrently; the *)
(* chain (contract nonce, permission) and the GSP are the environment.     *)
(***************************************************************************)
EXTENDS Integers, Sequences, FiniteSets, TLC

\* ------------------------------------------------------------------ bounds

NumWorkers == 2
MaxNonce == 1
MaxVault == 2

Workers == 1..NumWorkers
VaultIds == 1..MaxVault

\* ------------------------------------------------------- program constants

EIP712_NAME == "Democrit"
EIP712_VERSION == "1"

\* width in bytes of the VaultCheck checkpoint field (bytes32)
CheckpointWidth == 32

\* ------------------------------------------------------------ environment

Null == "null"

\* values the contract may declare for EIP712_NAME () / EIP712_VERSION ()
ContractNames == {"Democrit", "Other"}
ContractVersions == {"1", "2"}
\* game ids a GSP may report, and the one configured in the contract
GameIds == {"g1", "g2"}
ConfiguredGameIds == {"g1"}

\* fixed values of the deployment
ChainIdOfNode == "chain-5"
ContractAddr == "0xDemocrit"
OperatorName == "pool"
SignerKey == "key-1"
VmAccount == "0xController"

\* Account.from_key: the address derived from a private key
AddressOfKey(key) == <<"addr", key>>

\* ------------------------------------------------- strings, hex and bytes
\* A string is a sequence of one-character strings.

RECURSIVE Rep(_, _)
Rep(s, n) == IF n = 0 THEN <<>> ELSE s \o Rep(s, n - 1)

HexChars == <<"0", "1", "2", "3", "4", "5", "6", "7",
              "8", "9", "a", "b", "c", "d", "e", "f">>
UpperHexChars == <<"0", "1", "2", "3", "4", "5", "6", "7",
                   "8", "9", "A", "B", "C", "D", "E", "F">>

IsHexChar(c) == \E i \in 1..16 : HexChars[i] = c \/ UpperHexChars[i] = c
HexVal(c) == (CHOOSE i \in 1..16 : HexChars[i] = c \/ UpperHexChars[i] = c) - 1

HasHexPrefix(s) ==
  /\ Len(s) >= 2
  /\ s[1] = "0"
  /\ s[2] \in {"x", "X"}

RemoveHexPrefix(s) == IF HasHexPrefix(s) THEN SubSeq(s, 3, Len(s)) ELSE s

\* w3.to_bytes (hexstr=...): the prefix is optional, an odd number of digits
\* gets a leading zero, a non-hex character raises
ToBytesFails(hexstr) ==
  \/ hexstr = <<"None">>
  \/ \E i \in 1..Len(RemoveHexPrefix(hexstr)) : ~IsHexChar(RemoveHexPrefix(hexstr)[i])

ToBytes(hexstr) ==
  LET raw == RemoveHexPrefix(hexstr)
      digits == IF Len(raw) % 2 = 1 THEN <<"0">> \o raw ELSE raw
  IN  [i \in 1..(Len(digits) \div 2) |->
         16 * HexVal(digits[2 * i - 1]) + HexVal(digits[2 * i])]

\* checkpoints a GSP may report
CpA == <<"0", "x">> \o Rep(<<"a", "b">>, CheckpointWidth)
CpAUpper == <<"0", "X">> \o Rep(<<"A", "B">>, CheckpointWidth)
CpB == Rep(<<"1", "2">>, CheckpointWidth)
CpBad == <<"0", "x">> \o Rep(<<"z", "z">>, CheckpointWidth)
CpLong == <<"0", "x">> \o Rep(<<"c", "d">>, CheckpointWidth + 1)
Checkpoints == {CpA, CpAUpper, CpB, CpBad, CpLong}

\* Python's None where a checkpoint is expected
None == <<"None">>


\* --------------------------------------------------------------- signing

\* variant that puts the nonce and the vault id into each other's field
Msg_swapped(sg, vaultId, checkpoint, nonce) ==
  [domain |-> [name |-> EIP712_NAME,
               version |-> EIP712_VERSION,
               chainId |-> sg.chainId,
               verifyingContract |-> sg.address],
   primaryType |-> "VaultCheck",
   message |-> [vaultId |-> nonce,
                checkpoint |-> ToBytes(checkpoint),
                nonce |-> vaultId]]

\* the EIP712 message Signer.sign builds
Msg(sg, vaultId, checkpoint, nonce) ==
  [domain |-> [name |-> EIP712_NAME,
               version |-> EIP712_VERSION,
               chainId |-> sg.chainId,
               verifyingContract |-> sg.address],
   primaryType |-> "VaultCheck",
   message |-> [vaultId |-> vaultId,
                checkpoint |-> ToBytes(checkpoint),
                nonce |-> nonce]]

\* encode_structured_data: a bytes32 value longer than 32 bytes is rejected,
\* a shorter one is padded with zero bytes on the right; the typed hashes
\* are modelled as the (injective) structures they are taken over
EncodeFails(msg) == Len(msg.message.checkpoint) > CheckpointWidth

PadRight(bytes, n) == bytes \o Rep(<<0>>, n - Len(bytes))

\* variant for a VaultCheck type that lists no nonce field
EncodeStructuredData_noNonce(msg) ==
  [header |-> <<"EIP712Domain", msg.domain.name, msg.domain.version,
                msg.domain.chainId, msg.domain.verifyingContract>>,
   body |-> <<msg.primaryType, msg.message.vaultId,
              PadRight(msg.message.checkpoint, CheckpointWidth)>>]

EncodeStructuredData(msg) ==
  [header |-> <<"EIP712Domain", msg.domain.name, msg.domain.version,
                msg.domain.chainId, msg.domain.verifyingContract>>,
   body |-> <<msg.primaryType, msg.message.vaultId,
              PadRight(msg.message.checkpoint, CheckpointWidth),
              msg.message.nonce>>]

\* Account.sign_message: deterministic signature of the digest by the key
\* whose address is account
SignMessage(account, encoded) == [by |-> account, over |-> encoded]

\* HexBytes.hex (): the signature bytes as a hex string
SignatureHex(signature) == <<"0x", signature>>


\* ---------------------------------------------------------------- state

VARIABLES
  pcMain,          \* position of the main thread (construction, run scope)
  mainErr,         \* the error that ended the main thread, if any
  signer,          \* fields of the Signer object
  server,          \* fields of the VaultCheckServer object
  rpc,             \* the PooledJSONRPCServer of run
  runner,          \* the thread running serve_forever
  contractName,    \* chain: Democrit.EIP712_NAME ()
  contractVersion, \* chain: Democrit.EIP712_VERSION ()
  configGameId,    \* chain: IDemocritConfig.gameId ()
  hasPermission,   \* chain: VaultManager.hasAccountPermission (signer, operator)
  chainNonce,      \* chain: Democrit.signatureNonce (operator)
  log,             \* history: answers of hasAccountPermission and of the
                   \* constructor's getGspState, in call order
  connOpen,        \* a JSON-RPC connection to the GSP is open although the
                   \* withRpc scope it was made in has been left
  req              \* per pool worker: the request it handles

vars == <<pcMain, mainErr, signer, server, rpc, runner, contractName,
          contractVersion, configGameId, hasPermission, chainNonce,
          log, connOpen, req>>

chainVars == <<contractName, contractVersion, configGameId, hasPermission,
               chainNonce>>

NoSigner ==
  [chainId |-> Null, account |-> Null, operator |-> Null, address |-> Null,
   gameId |-> Null, controller |-> Null]

NoServer ==
  [checker |-> Null, signer |-> Null, signVaultCheck |-> FALSE,
   getInfo |-> FALSE]

NoRpc == [registered |-> {}, shutdownRequest |-> FALSE, isShutDown |-> FALSE]

NoCalls == [check |-> 0, nonce |-> 0, sign |-> 0, state |-> 0]

IdleReq ==
  [pc |-> "idle", method |-> Null, vaultId |-> 0, checked |-> <<>>,
   controllerArg |-> Null, nonceRead |-> <<>>, msg |-> <<>>,
   result |-> <<>>, error |-> Null, calls |-> NoCalls]

Init ==
  /\ pcMain = "start"
  /\ mainErr = Null
  /\ signer = NoSigner
  /\ server = NoServer
  /\ rpc = NoRpc
  /\ runner = "none"
  /\ contractName \in ContractNames
  /\ contractVersion \in ContractVersions
  /\ configGameId \in ConfiguredGameIds
  /\ hasPermission \in BOOLEAN
  /\ chainNonce = 0
  /\ log = [perm |-> <<>>, gsp |-> <<>>]
  /\ connOpen = FALSE
  /\ req = [r \in Workers |-> IdleReq]

\* what withRpc does once the with-block is left: nothing; the proxy is only
\* dropped, so whether its connection is closed by then is up to the garbage
\* collector
WithRpcClosesOnExit == {TRUE, FALSE}

\* a backend call (check, getGspState) made inside withRpc has ended
LeaveRpc == \E closed \in WithRpcClosesOnExit : connOpen' = (connOpen \/ ~closed)

Fail(e) ==
  /\ pcMain' = "failed"
  /\ mainErr' = e

\* ------------------------------------------------------- Signer.__init__

\* chain id, account, contract handles, game id
SignerResolve ==
  /\ pcMain = "start"
  /\ \/ /\ signer' = [signer EXCEPT !.chainId = ChainIdOfNode,
                                    !.account = AddressOfKey(SignerKey),
                                    !.operator = OperatorName,
                                    !.address = ContractAddr,
                                    !.gameId = configGameId]
        /\ pcMain' = "s_eip"
        /\ UNCHANGED mainErr
     \/ /\ Fail("RpcError")
        /\ UNCHANGED signer
  /\ UNCHANGED <<server, rpc, runner, chainVars, log, connOpen, req>>

\* variant that compares the name alone
EipMismatch_nameOnly(name, version) == name # EIP712_NAME

EipMismatch(name, version) == name # EIP712_NAME \/ version # EIP712_VERSION

\* variant that asks for the permission before it compares name and version
SignerCheckEip_permFirst ==
  /\ pcMain = "s_eip"
  /\ \/ /\ log' = [log EXCEPT !.perm = Append(@, hasPermission)]
        /\ IF ~hasPermission
             THEN Fail("PermissionDenied")
             ELSE IF EipMismatch(contractName, contractVersion)
                    THEN Fail("EIP712Mismatch")
                    ELSE pcMain' = "s_perm" /\ UNCHANGED mainErr
     \/ /\ Fail("RpcError")
        /\ UNCHANGED log
  /\ UNCHANGED <<signer, server, rpc, runner, chainVars, connOpen, req>>

SignerCheckEip ==
  /\ pcMain = "s_eip"
  /\ \/ IF EipMismatch(contractName, contractVersion)
          THEN Fail("EIP712Mismatch")
          ELSE pcMain' = "s_perm" /\ UNCHANGED mainErr
     \/ Fail("RpcError")
  /\ UNCHANGED <<signer, server, rpc, runner, chainVars, log, connOpen, req>>

\* variant that never refuses
PermissionDenied_never(granted) == FALSE

PermissionDenied(granted) == ~granted

SignerCheckPerm ==
  /\ pcMain = "s_perm"
  /\ \/ /\ log' = [log EXCEPT !.perm = Append(@, hasPermission)]
        /\ IF PermissionDenied(hasPermission)
             THEN Fail("PermissionDenied")
             ELSE pcMain' = "s_ctrl" /\ UNCHANGED mainErr
     \/ /\ Fail("RpcError")
        /\ UNCHANGED log
  /\ UNCHANGED <<signer, server, rpc, runner, chainVars, connOpen, req>>

SignerResolveController ==
  /\ pcMain = "s_ctrl"
  /\ \/ /\ signer' = [signer EXCEPT !.controller = VmAccount]
        /\ pcMain' = "signer_ready"
        /\ UNCHANGED mainErr
     \/ /\ Fail("RpcError")
        /\ UNCHANGED signer
  /\ UNCHANGED <<server, rpc, runner, chainVars, log, connOpen, req>>

\* ---------------------------------------------- VaultCheckServer.__init__

\* variant that accepts any GSP
GameIdMismatch_never(gspGameId, signerGameId) == FALSE

GameIdMismatch(gspGameId, signerGameId) == gspGameId # signerGameId

ServerInit ==
  /\ pcMain = "signer_ready"
  /\ \/ \E gsp \in GameIds :
          /\ log' = [log EXCEPT !.gsp = Append(@, gsp)]
          /\ IF GameIdMismatch(gsp, signer.gameId)
               THEN /\ Fail("GameIdMismatch")
                    /\ server' = [server EXCEPT !.checker = "checker",
                                                !.signer = "signer"]
               ELSE /\ server' = [checker |-> "checker", signer |-> "signer",
                                  signVaultCheck |-> TRUE, getInfo |-> TRUE]
                    /\ pcMain' = "constructed"
                    /\ UNCHANGED mainErr
     \/ /\ Fail("BackendUnavailable")
        /\ server' = [server EXCEPT !.checker = "checker",
                                    !.signer = "signer"]
        /\ UNCHANGED log
  /\ LeaveRpc
  /\ UNCHANGED <<signer, rpc, runner, chainVars, req>>

\* ------------------------------------------------- VaultCheckServer.run

Methods == {"signvaultcheck", "getinfo"}

\* PooledJSONRPCServer (bind), register_function twice, runner.start ()
RunEnter ==
  /\ pcMain = "constructed"
  /\ \/ /\ rpc' = [rpc EXCEPT !.registered =
                     {m \in Methods :
                        \/ m = "signvaultcheck" /\ server.signVaultCheck
                        \/ m = "getinfo" /\ server.getInfo}]
        /\ runner' = "started"
        /\ pcMain' = "in_scope"
        /\ UNCHANGED mainErr
     \/ /\ Fail("BindError")
        /\ UNCHANGED <<rpc, runner>>
  /\ UNCHANGED <<signer, server, chainVars, log, connOpen, req>>

\* serve_forever: clears the is-shut-down event and enters its loop
RunnerBegin ==
  /\ runner = "started"
  /\ runner' = "serving"
  /\ rpc' = [rpc EXCEPT !.isShutDown = FALSE]
  /\ UNCHANGED <<pcMain, mainErr, signer, server, chainVars, log, connOpen, req>>

\* serve_forever: the loop sees the shutdown request, the request flag is
\* reset and the is-shut-down event is set
RunnerEnd ==
  /\ runner = "serving"
  /\ rpc.shutdownRequest
  /\ runner' = "returning"
  /\ rpc' = [rpc EXCEPT !.shutdownRequest = FALSE, !.isShutDown = TRUE]
  /\ UNCHANGED <<pcMain, mainErr, signer, server, chainVars, log, connOpen, req>>

\* serve_forever returns and the runner thread ends
RunnerExit ==
  /\ runner = "returning"
  /\ runner' = "finished"
  /\ UNCHANGED <<pcMain, mainErr, signer, server, rpc, chainVars, log, connOpen, req>>

\* the with-body ends, normally or with an error: finally, server.shutdown ()
ScopeExit ==
  /\ pcMain = "in_scope"
  /\ \E how \in {Null, "BodyError"} : mainErr' = how
  /\ pcMain' = "shutdown"
  /\ rpc' = [rpc EXCEPT !.shutdownRequest = TRUE]
  /\ UNCHANGED <<signer, server, runner, chainVars, log, connOpen, req>>

\* server.shutdown () returns once serve_forever has set the event
ShutdownReturns ==
  /\ pcMain = "shutdown"
  /\ rpc.isShutDown
  /\ pcMain' = "join"
  /\ UNCHANGED <<mainErr, signer, server, rpc, runner, chainVars, log, connOpen,
                 req>>

\* variant without the join: the scope is left as soon as shutdown returns
RunnerJoin_noWait ==
  /\ pcMain = "join"
  /\ pcMain' = "left"
  /\ UNCHANGED <<mainErr, signer, server, rpc, runner, chainVars, log, connOpen,
                 req>>

\* runner.join () returns once the thread has ended
RunnerJoin ==
  /\ pcMain = "join"
  /\ runner = "finished"
  /\ pcMain' = "left"
  /\ UNCHANGED <<mainErr, signer, server, rpc, runner, chainVars, log, connOpen,
                 req>>

\* ------------------------------------------------------------- requests

Become(r, rec) == req' = [req EXCEPT ![r] = rec]

Called(q, what) == [q.calls EXCEPT ![what] = @ + 1]

\* the serving loop hands a signvaultcheck request to a pool worker
StartSignVaultCheck(r) ==
  /\ runner = "serving"
  /\ "signvaultcheck" \in rpc.registered
  /\ req[r].pc = "idle"
  /\ \E v \in VaultIds :
       Become(r, [IdleReq EXCEPT !.pc = "check", !.method = "signvaultcheck",
                                 !.vaultId = v])
  /\ UNCHANGED <<pcMain, mainErr, signer, server, rpc, runner, chainVars,
                 log, connOpen>>

\* the serving loop hands a getinfo request to a pool worker
StartGetInfo(r) ==
  /\ runner = "serving"
  /\ "getinfo" \in rpc.registered
  /\ req[r].pc = "idle"
  /\ Become(r, [IdleReq EXCEPT !.pc = "state", !.method = "getinfo"])
  /\ UNCHANGED <<pcMain, mainErr, signer, server, rpc, runner, chainVars,
                 log, connOpen>>

\* variants of the test: one that looks at the checkpoint alone, one that
\* rejects only when both conditions hold
IsInvalid_checkpointOnly(valid, checkpoint) == checkpoint = None

IsInvalid_both(valid, checkpoint) == (~valid) /\ checkpoint = None

\* the test of signVaultCheck on what checker.check returned
IsInvalid(valid, checkpoint) == (~valid) \/ checkpoint = None

\* variant that holds a lock from the check to the end of the signing
SvcCheck_locked(r) ==
  LET q == req[r] IN
  /\ q.pc = "check"
  /\ \A r2 \in Workers \ {r} : req[r2].pc # "sign"
  /\ \/ \E valid \in BOOLEAN, cp \in Checkpoints \cup {None} :
          LET q1 == [q EXCEPT !.checked = <<valid, cp>>,
                              !.controllerArg = signer.controller,
                              !.calls = Called(q, "check")]
          IN  IF IsInvalid(valid, cp)
                THEN Become(r, [q1 EXCEPT !.pc = "failed",
                                          !.error = "InvalidResource"])
                ELSE Become(r, [q1 EXCEPT !.pc = "sign"])
     \/ Become(r, [q EXCEPT !.pc = "failed",
                            !.error = "BackendUnavailable",
                            !.controllerArg = signer.controller,
                            !.calls = Called(q, "check")])
  /\ LeaveRpc
  /\ UNCHANGED <<pcMain, mainErr, signer, server, rpc, runner, chainVars,
                 log>>

\* variant that calls checker.check a second time when the first call fails
SvcCheck_retry(r) ==
  LET q == req[r] IN
  /\ q.pc = "check"
  /\ \/ \E valid \in BOOLEAN, cp \in Checkpoints \cup {None} :
          LET q1 == [q EXCEPT !.checked = <<valid, cp>>,
                              !.controllerArg = signer.controller,
                              !.calls = Called(q, "check")]
          IN  IF IsInvalid(valid, cp)
                THEN Become(r, [q1 EXCEPT !.pc = "failed",
                                          !.error = "InvalidResource"])
                ELSE Become(r, [q1 EXCEPT !.pc = "sign"])
     \/ IF q.calls.check = 0
          THEN Become(r, [q EXCEPT !.controllerArg = signer.controller,
                                   !.calls = Called(q, "check")])
          ELSE Become(r, [q EXCEPT !.pc = "failed",
                                   !.error = "BackendUnavailable",
                                   !.controllerArg = signer.controller,
                                   !.calls = Called(q, "check")])
  /\ LeaveRpc
  /\ UNCHANGED <<pcMain, mainErr, signer, server, rpc, runner, chainVars,
                 log>>

\* signVaultCheck up to the call of signer.sign
SvcCheck(r) ==
  LET q == req[r] IN
  /\ q.pc = "check"
  /\ \/ \E valid \in BOOLEAN, cp \in Checkpoints \cup {None} :
          LET q1 == [q EXCEPT !.checked = <<valid, cp>>,
                              !.controllerArg = signer.controller,
                              !.calls = Called(q, "check")]
          IN  IF IsInvalid(valid, cp)
                THEN Become(r, [q1 EXCEPT !.pc = "failed",
                                          !.error = "InvalidResource"])
                ELSE Become(r, [q1 EXCEPT !.pc = "sign"])
     \/ Become(r, [q EXCEPT !.pc = "failed",
                            !.error = "BackendUnavailable",
                            !.controllerArg = signer.controller,
                            !.calls = Called(q, "check")])
  /\ LeaveRpc
  /\ UNCHANGED <<pcMain, mainErr, signer, server, rpc, runner, chainVars,
                 log>>

\* variant that keeps using the nonce seen when the signer was constructed
SignatureNonce_cached(operator) == 0

\* c.functions.signatureNonce (operator).call ()
SignatureNonce(operator) == chainNonce

\* variant that reports the checkpoint without its 0x prefix
VaultCheckResponse_stripped(vaultId, checkpoint, signature) ==
  [vaultcheck |-> [vaultId |-> vaultId,
                   checkpoint |-> RemoveHexPrefix(checkpoint)],
   signature |-> SignatureHex(signature)]

\* the return value of signVaultCheck
VaultCheckResponse(vaultId, checkpoint, signature) ==
  [vaultcheck |-> [vaultId |-> vaultId, checkpoint |-> checkpoint],
   signature |-> SignatureHex(signature)]

\* variant that answers with the vault check alone when signing fails
SvcSign_partial(r) ==
  LET q == req[r]
      cp == q.checked[2]
      q1 == [q EXCEPT !.calls = Called([q EXCEPT !.calls = Called(q, "sign")],
                                       "nonce")]
  IN
  /\ q.pc = "sign"
  /\ \/ LET nonce == SignatureNonce(signer.operator)
            q2 == [q1 EXCEPT !.nonceRead = <<chainNonce>>]
            msg == Msg(signer, q.vaultId, cp, nonce)
        IN  IF ToBytesFails(cp) \/ EncodeFails(msg)
              THEN Become(r, [q2 EXCEPT
                     !.pc = "done",
                     !.result = <<[vaultcheck |-> [vaultId |-> q.vaultId,
                                                   checkpoint |-> cp]]>>])
              ELSE Become(r, [q2 EXCEPT
                     !.pc = "done",
                     !.msg = <<msg>>,
                     !.result = <<VaultCheckResponse(q.vaultId, cp,
                                    SignMessage(signer.account,
                                                EncodeStructuredData(msg)))>>])
     \/ Become(r, [q1 EXCEPT !.pc = "failed", !.error = "BackendUnavailable"])
  /\ UNCHANGED <<pcMain, mainErr, signer, server, rpc, runner, chainVars,
                 log, connOpen>>

\* variant that asks the vault manager for the permission before each signing
SvcSign_checksPermission(r) ==
  LET q == req[r]
      cp == q.checked[2]
      q1 == [q EXCEPT !.calls = Called([q EXCEPT !.calls = Called(q, "sign")],
                                       "nonce")]
  IN
  /\ q.pc = "sign"
  /\ \/ /\ log' = [log EXCEPT !.perm = Append(@, hasPermission)]
        /\ LET nonce == SignatureNonce(signer.operator)
               q2 == [q1 EXCEPT !.nonceRead = <<chainNonce>>]
               msg == Msg(signer, q.vaultId, cp, nonce)
           IN  IF ~hasPermission
                 THEN Become(r, [q1 EXCEPT !.pc = "failed",
                                           !.error = "PermissionDenied"])
                 ELSE IF ToBytesFails(cp) \/ EncodeFails(msg)
                   THEN Become(r, [q2 EXCEPT !.pc = "failed",
                                             !.error = "SigningFailure"])
                   ELSE Become(r, [q2 EXCEPT
                          !.pc = "done",
                          !.msg = <<msg>>,
                          !.result = <<VaultCheckResponse(q.vaultId, cp,
                                         SignMessage(signer.account,
                                                     EncodeStructuredData(msg)))>>])
     \/ /\ Become(r, [q1 EXCEPT !.pc = "failed",
                                !.error = "BackendUnavailable"])
        /\ UNCHANGED log
  /\ UNCHANGED <<pcMain, mainErr, signer, server, rpc, runner, chainVars,
                 connOpen>>

\* signer.sign (vaultId, checkpoint) and the return of signVaultCheck
SvcSign(r) ==
  LET q == req[r]
      cp == q.checked[2]
      q1 == [q EXCEPT !.calls = Called([q EXCEPT !.calls = Called(q, "sign")],
                                       "nonce")]
  IN
  /\ q.pc = "sign"
  /\ \/ Become(r, [q1 EXCEPT !.pc = "failed", !.error = "BackendUnavailable"])
     \/ LET nonce == SignatureNonce(signer.operator)
            q2 == [q1 EXCEPT !.nonceRead = <<chainNonce>>]
            msg == Msg(signer, q.vaultId, cp, nonce)
        IN  IF ToBytesFails(cp) \/ EncodeFails(msg)
              THEN Become(r, [q2 EXCEPT !.pc = "failed",
                                        !.error = "SigningFailure"])
              ELSE Become(r, [q2 EXCEPT
                     !.pc = "done",
                     !.msg = <<msg>>,
                     !.result = <<VaultCheckResponse(q.vaultId, cp,
                                    SignMessage(signer.account,
                                                EncodeStructuredData(msg)))>>])
  /\ UNCHANGED <<pcMain, mainErr, signer, server, rpc, runner, chainVars,
                 log, connOpen>>

\* the return value of getInfo
InfoResponse(gsp, sg) ==
  [gsp |-> gsp,
   democrit |-> [chainid |-> sg.chainId, gameid |-> sg.gameId,
                 contract |-> sg.address, controller |-> sg.controller],
   pool |-> [operator |-> sg.operator, signer |-> sg.account]]

\* variant that also reports the operator's current nonce
GetInfo_withNonce(r) ==
  LET q == req[r]
      q1 == [q EXCEPT !.calls = Called([q EXCEPT !.calls = Called(q, "state")],
                                       "nonce")]
  IN
  /\ q.pc = "state"
  /\ \/ \E g \in GameIds :
          Become(r, [q1 EXCEPT !.pc = "done",
                               !.nonceRead = <<chainNonce>>,
                               !.result = <<InfoResponse([gameid |-> g],
                                                         signer)>>])
     \/ Become(r, [q1 EXCEPT !.pc = "failed", !.error = "BackendUnavailable"])
  /\ LeaveRpc
  /\ UNCHANGED <<pcMain, mainErr, signer, server, rpc, runner, chainVars,
                 log>>

\* variant that stores the game id the GSP reports into the signer
GetInfo_adoptsGameId(r) ==
  LET q == req[r]
      q1 == [q EXCEPT !.calls = Called(q, "state")]
  IN
  /\ q.pc = "state"
  /\ \/ \E g \in GameIds :
          /\ Become(r, [q1 EXCEPT !.pc = "done",
                                  !.result = <<InfoResponse([gameid |-> g],
                                                            signer)>>])
          /\ signer' = [signer EXCEPT !.gameId = g]
     \/ /\ Become(r, [q1 EXCEPT !.pc = "failed",
                                !.error = "BackendUnavailable"])
        /\ UNCHANGED signer
  /\ LeaveRpc
  /\ UNCHANGED <<pcMain, mainErr, server, rpc, runner, chainVars, log>>

\* getInfo
GetInfo(r) ==
  LET q == req[r]
      q1 == [q EXCEPT !.calls = Called(q, "state")]
  IN
  /\ q.pc = "state"
  /\ \/ \E g \in GameIds :
          Become(r, [q1 EXCEPT !.pc = "done",
                               !.result = <<InfoResponse([gameid |-> g],
                                                         signer)>>])
     \/ Become(r, [q1 EXCEPT !.pc = "failed", !.error = "BackendUnavailable"])
  /\ LeaveRpc
  /\ UNCHANGED <<pcMain, mainErr, signer, server, rpc, runner, chainVars,
                 log>>

\* variant that takes the methods out of service after a failed request
Respond_unregister(r) ==
  /\ req[r].pc \in {"done", "failed"}
  /\ Become(r, IdleReq)
  /\ rpc' = IF req[r].pc = "failed" THEN [rpc EXCEPT !.registered = {}]
                                    ELSE rpc
  /\ UNCHANGED <<pcMain, mainErr, signer, server, runner, chainVars, log, connOpen>>

\* the response (result or error) is sent and the worker is free again
Respond(r) ==
  /\ req[r].pc \in {"done", "failed"}
  /\ Become(r, IdleReq)
  /\ UNCHANGED <<pcMain, mainErr, signer, server, rpc, runner, chainVars,
                 log, connOpen>>

\* ---------------------------------------------------------- environment

\* somebody uses up the operator's nonce on chain
NonceAdvance ==
  /\ chainNonce < MaxNonce
  /\ chainNonce' = chainNonce + 1
  /\ UNCHANGED <<pcMain, mainErr, signer, server, rpc, runner, contractName,
                 contractVersion, configGameId, hasPermission, log, connOpen,
                 req>>

\* the operator revokes the signer's permission on chain
PermissionRevoked ==
  /\ hasPermission
  /\ hasPermission' = FALSE
  /\ UNCHANGED <<pcMain, mainErr, signer, server, rpc, runner, contractName,
                 contractVersion, configGameId, chainNonce, log, connOpen, req>>

\* the garbage collector finalises the dropped proxies
ProxyCollected ==
  /\ connOpen
  /\ connOpen' = FALSE
  /\ UNCHANGED <<pcMain, mainErr, signer, server, rpc, runner, chainVars, log,
                 req>>

\* ------------------------------------------------------------------ spec

Next ==
  \/ SignerResolve
  \/ SignerCheckEip
  \/ SignerCheckPerm
  \/ SignerResolveController
  \/ ServerInit
  \/ RunEnter
  \/ RunnerBegin
  \/ RunnerEnd
  \/ RunnerExit
  \/ ScopeExit
  \/ ShutdownReturns
  \/ RunnerJoin
  \/ \E r \in Workers : StartSignVaultCheck(r)
  \/ \E r \in Workers : StartGetInfo(r)
  \/ \E r \in Workers : SvcCheck(r)
  \/ \E r \in Workers : SvcSign(r)
  \/ \E r \in Workers : GetInfo(r)
  \/ \E r \in Workers : Respond(r)
  \/ NonceAdvance
  \/ PermissionRevoked
  \/ ProxyCollected

Spec == Init /\ [][Next]_vars

\* the runner thread and the main thread are scheduled: a step of theirs that
\* stays possible is eventually taken
FairSpec ==
  /\ Spec
  /\ WF_vars(RunnerBegin)
  /\ WF_vars(RunnerEnd)
  /\ WF_vars(RunnerExit)
  /\ WF_vars(ShutdownReturns)
  /\ WF_vars(RunnerJoin)


\* ---------------------------------------------------------------- claims

SignRequests == {r \in Workers : req[r].method = "signvaultcheck"}
InfoRequests == {r \in Workers : req[r].method = "getinfo"}

\* the request of worker r has produced a signature
HasSignature(r) == req[r].method = "signvaultcheck" /\ req[r].result # <<>>

\* checker.check has returned (valid, checkpoint) in the request of worker r
CheckReturned(r) == req[r].checked # <<>>

\* C1: a signature is produced only in a request whose check returned
\* (True, checkpoint) with a checkpoint that is not None; a request whose
\* check returned False or None (also as (True, None) or (False, checkpoint))
\* never calls sign and holds no signature.
C1_SignedOnlyIfValid ==
  \A r \in Workers :
    /\ HasSignature(r) =>
         /\ CheckReturned(r)
         /\ req[r].checked[1] = TRUE
         /\ req[r].checked[2] # None
    /\ (CheckReturned(r) /\ (req[r].checked[1] = FALSE \/ req[r].checked[2] = None))
         => (~HasSignature(r) /\ req[r].calls.sign = 0 /\ req[r].msg = <<>>)

C1_Witness ==
  \E r1, r2 \in Workers :
    /\ HasSignature(r1)
    /\ req[r2].checked = <<FALSE, CpA>>
    /\ req[r2].pc = "failed"

\* C2: when the backend reports the vault as not existing, signVaultCheck
\* ends with the error of an invalid vault, sign is not invoked and the
\* nonce is not read.
C2_NonExistentRejected ==
  \A r \in Workers :
    (CheckReturned(r) /\ req[r].checked[1] = FALSE) =>
      /\ req[r].pc = "failed"
      /\ req[r].error = "InvalidResource"
      /\ req[r].calls.sign = 0
      /\ req[r].calls.nonce = 0
      /\ req[r].nonceRead = <<>>
      /\ req[r].result = <<>>

C2_Witness ==
  \E r \in Workers :
    /\ req[r].checked = <<FALSE, CpB>>
    /\ req[r].error = "InvalidResource"


\* the bytes a checkpoint string stands for, written out
ExpectedBytes(checkpoint) ==
  CASE checkpoint = CpA -> Rep(<<171>>, 32)
    [] checkpoint = CpAUpper -> Rep(<<171>>, 32)
    [] checkpoint = CpB -> Rep(<<18>>, 32)
    [] OTHER -> <<>>

WellFormed == {CpA, CpAUpper, CpB}

\* C3: when the backend reports the vault as existing with checkpoint C,
\* the signature returned is the signer key's signature over the message
\* with domain (Democrit, 1, chain id, contract address) and VaultCheck
\* (vault id, bytes of C, nonce), the nonce being the contract's value when
\* sign read it; for a well-formed C only a failed nonce read prevents it.
C3_SignatureOverExactMessage ==
  \A r \in Workers :
    (CheckReturned(r) /\ req[r].checked[1] = TRUE /\ req[r].checked[2] # None) =>
      LET q == req[r]
          C == q.checked[2]
      IN  /\ q.pc \in {"sign", "done", "failed"}
          /\ (q.pc = "done" =>
                /\ q.nonceRead # <<>>
                /\ C \in WellFormed
                /\ q.result[1].signature =
                     <<"0x",
                       [by |-> <<"addr", SignerKey>>,
                        over |-> [header |-> <<"EIP712Domain", "Democrit", "1",
                                               ChainIdOfNode, ContractAddr>>,
                                  body |-> <<"VaultCheck", q.vaultId,
                                             ExpectedBytes(C),
                                             q.nonceRead[1]>>]]>>)
          /\ (q.pc = "failed" =>
                \/ q.error = "BackendUnavailable" /\ q.nonceRead = <<>>
                \/ q.error = "SigningFailure" /\ C \notin WellFormed)

C3_Witness ==
  \E r \in Workers :
    /\ req[r].pc = "done"
    /\ req[r].checked = <<TRUE, CpAUpper>>
    /\ req[r].nonceRead = <<1>>

\* C4: every call of sign reads the nonce from the contract once and signs
\* exactly the value the contract holds at that moment; a call leaves the
\* signer's fields alone, and no step of the service changes the
\* contract's nonce.
C4_FreshNonceEveryCall ==
  [][
    /\ \A r \in Workers :
         (req[r].pc = "sign" /\ req'[r].pc # "sign") =>
           /\ req'[r].calls.sign = 1
           /\ req'[r].calls.nonce = 1
           /\ (req'[r].msg # <<>> => req'[r].msg[1].message.nonce = chainNonce)
           /\ signer' = signer
    /\ (req' # req \/ pcMain' # pcMain \/ runner' # runner \/ signer' # signer)
         => chainNonce' = chainNonce
  ]_vars

C4_Witness ==
  \E r1, r2 \in Workers :
    /\ HasSignature(r1) /\ HasSignature(r2)
    /\ req[r1].msg[1].message.nonce = 0
    /\ req[r2].msg[1].message.nonce = 1

\* C5: two calls of sign for the same vault and checkpoint under two
\* different contract nonces sign messages that agree in domain, vault id
\* and checkpoint and differ in the nonce, and return different signatures.
C5_DifferentNonceDifferentSignature ==
  \A r1, r2 \in Workers :
    ( /\ HasSignature(r1) /\ HasSignature(r2)
      /\ req[r1].vaultId = req[r2].vaultId
      /\ req[r1].checked[2] = req[r2].checked[2]
      /\ req[r1].nonceRead # req[r2].nonceRead ) =>
      LET m1 == req[r1].msg[1]
          m2 == req[r2].msg[1]
      IN  /\ m1.domain = m2.domain
          /\ m1.primaryType = m2.primaryType
          /\ m1.message.vaultId = m2.message.vaultId
          /\ m1.message.checkpoint = m2.message.checkpoint
          /\ m1.message.nonce # m2.message.nonce
          /\ req[r1].result[1].signature # req[r2].result[1].signature

C5_Witness ==
  \E r1, r2 \in Workers :
    /\ HasSignature(r1) /\ HasSignature(r2)
    /\ req[r1].vaultId = req[r2].vaultId
    /\ req[r1].checked[2] = CpB /\ req[r2].checked[2] = CpB
    /\ req[r1].nonceRead = <<0>> /\ req[r2].nonceRead = <<1>>


NoRequestYet == \A r \in Workers : req[r] = IdleReq

\* C6: when the contract declares another EIP712 name or version than
\* ("Democrit", "1"), the Signer's construction fails: it never gets past
\* the comparison, no Signer (and no server) comes to exist and no request
\* is ever handled.
C6_EipMismatchIsFatal ==
  (contractName # "Democrit" \/ contractVersion # "1") =>
    /\ pcMain \in {"start", "s_eip", "failed"}
    /\ pcMain = "failed" => mainErr \in {"EIP712Mismatch", "RpcError"}
    /\ signer.controller = Null
    /\ server = NoServer
    /\ rpc.registered = {}
    /\ NoRequestYet

C6_Witness ==
  /\ contractName = "Democrit"
  /\ contractVersion = "2"
  /\ pcMain = "failed"
  /\ mainErr = "EIP712Mismatch"

\* C7: when the vault manager answers that the key's account has no
\* permission for the operator, the Signer's construction fails; a Signer
\* that exists has asked once and was answered that it has the permission.
C7_PermissionDeniedIsFatal ==
  /\ (log.perm # <<>> /\ log.perm[1] = FALSE) =>
       /\ pcMain = "failed"
       /\ mainErr = "PermissionDenied"
       /\ signer.controller = Null
       /\ server = NoServer
       /\ NoRequestYet
  /\ signer.controller # Null => log.perm = <<TRUE>>

C7_Witness ==
  /\ log.perm = <<FALSE>>
  /\ contractName = "Democrit"
  /\ contractVersion = "1"
  /\ mainErr = "PermissionDenied"

EndpointBoundOrServed ==
  \/ rpc.registered # {}
  \/ runner # "none"
  \/ ~NoRequestYet

\* C8: when the GSP reports another game id than the signer's, the server's
\* construction fails, its two methods do not come to exist and nothing is
\* registered or served; whenever a method is registered or a request is
\* handled, the name/version check, the permission check and the game id
\* check have all passed.
C8_NoEndpointWithoutChecks ==
  /\ (log.gsp # <<>> /\ log.gsp[1] # configGameId) =>
       /\ pcMain = "failed"
       /\ mainErr = "GameIdMismatch"
       /\ ~server.signVaultCheck
       /\ ~server.getInfo
       /\ ~EndpointBoundOrServed
  /\ EndpointBoundOrServed =>
       /\ contractName = "Democrit"
       /\ contractVersion = "1"
       /\ log.perm = <<TRUE>>
       /\ log.gsp = <<configGameId>>
       /\ signer.gameId = configGameId
       /\ server.signVaultCheck /\ server.getInfo
       /\ pcMain \in {"in_scope", "shutdown", "join", "left"}

C8_Witness ==
  /\ log.gsp = <<"g2">>
  /\ signer.gameId = "g1"
  /\ mainErr = "GameIdMismatch"

\* C9: getInfo calls getGspState once and nothing else (no check, no sign,
\* no nonce read), and it fails only when getGspState fails.
C9_GetInfoOnlyReadsState ==
  \A r \in InfoRequests :
    LET q == req[r] IN
    /\ q.calls.check = 0 /\ q.calls.sign = 0 /\ q.calls.nonce = 0
    /\ q.checked = <<>> /\ q.nonceRead = <<>> /\ q.msg = <<>>
    /\ q.pc \in {"state", "done", "failed"}
    /\ q.pc = "state" => q.calls.state = 0
    /\ q.pc \in {"done", "failed"} => q.calls.state = 1
    /\ q.pc = "failed" => q.error = "BackendUnavailable"
    /\ q.pc = "done" => (q.error = Null /\ q.result # <<>>)

C9_Witness ==
  \E r1, r2 \in Workers :
    /\ req[r1].method = "getinfo" /\ req[r1].pc = "done"
    /\ req[r2].method = "signvaultcheck" /\ req[r2].error = "InvalidResource"

\* C10: a signVaultCheck request ends either with a response that holds the
\* vault check (vault id, checkpoint) and the signature, or with an error
\* and no response; a response with only one of the two does not occur.
C10_AllOrNothing ==
  \A r \in SignRequests :
    LET q == req[r] IN
    /\ q.pc \in {"check", "sign", "done", "failed"}
    /\ q.pc \in {"check", "sign"} => (q.result = <<>> /\ q.error = Null)
    /\ q.pc = "failed" =>
         /\ q.result = <<>>
         /\ q.error \in {"InvalidResource", "BackendUnavailable",
                         "SigningFailure"}
    /\ q.pc = "done" =>
         /\ q.error = Null
         /\ Len(q.result) = 1
         /\ DOMAIN q.result[1] = {"vaultcheck", "signature"}
         /\ q.result[1].vaultcheck = [vaultId |-> q.vaultId,
                                      checkpoint |-> q.checked[2]]
         /\ q.result[1].signature[1] = "0x"
         /\ q.result[1].signature[2].by = signer.account

C10_Witness ==
  \E r1, r2 \in Workers :
    /\ req[r1].pc = "failed" /\ req[r1].error = "SigningFailure"
    /\ req[r2].pc = "done" /\ req[r2].method = "signvaultcheck"

\* C11: a signVaultCheck request calls checker.check once and reads the
\* nonce at most once; when check is unavailable, or the nonce read fails,
\* the request ends with that error without any further call and without
\* a signature.
C11_NoRetry ==
  \A r \in SignRequests :
    LET q == req[r] IN
    /\ q.calls.state = 0
    /\ q.pc = "check" => q.calls = NoCalls
    /\ q.pc \in {"sign", "done", "failed"} => q.calls.check = 1
    /\ q.calls.nonce <= 1 /\ q.calls.sign <= 1
    /\ (q.pc = "failed" /\ q.error = "BackendUnavailable" /\ q.checked = <<>>) =>
         /\ q.calls = [NoCalls EXCEPT !.check = 1]
         /\ q.nonceRead = <<>> /\ q.msg = <<>> /\ q.result = <<>>
    /\ (q.pc = "failed" /\ q.error = "BackendUnavailable" /\ q.checked # <<>>) =>
         /\ q.calls = [NoCalls EXCEPT !.check = 1, !.sign = 1, !.nonce = 1]
         /\ q.nonceRead = <<>> /\ q.msg = <<>> /\ q.result = <<>>

C11_Witness ==
  \E r1, r2 \in Workers :
    /\ req[r1].pc = "failed" /\ req[r1].error = "BackendUnavailable"
    /\ req[r1].checked = <<>> /\ req[r1].method = "signvaultcheck"
    /\ req[r2].pc = "failed" /\ req[r2].error = "BackendUnavailable"
    /\ req[r2].checked = <<TRUE, CpA>>

\* C12: inside the run scope the two methods are registered and the runner
\* thread has been started; the scope is left, after a normal end or an
\* error of the body alike, only when serve_forever has returned and the
\* runner thread has ended; and once the body has ended the scope is
\* eventually left, also when the runner had not begun to serve.
C12_RunScope ==
  /\ [](pcMain \in {"in_scope", "shutdown", "join"} =>
          (runner # "none" /\ rpc.registered = {"signvaultcheck", "getinfo"}))
  /\ [](pcMain = "join" => runner \in {"returning", "finished"})
  /\ [](pcMain = "left" => (runner = "finished" /\ rpc.isShutDown))
  /\ (pcMain = "shutdown" ~> pcMain = "left")

C12_Witness ==
  /\ pcMain = "shutdown"
  /\ mainErr = "BodyError"
  /\ runner = "started"

serviceVars == <<pcMain, mainErr, signer, server, rpc, runner, log>>

OthersUntouched(r) == \A r2 \in Workers \ {r} : req'[r2] = req[r2]

\* C13: the server object is either not constructed or ready (both methods
\* exist), and once ready it stays as it is; a request that fails changes
\* nothing of the signer, the server object, the registered methods or the
\* other requests, and after its error is sent the worker is as it was
\* before the request.
C13_FailureLeavesServiceReady ==
  [][
    /\ server.signVaultCheck = server.getInfo
    /\ server.signVaultCheck => server' = server
    /\ \A r \in Workers :
         /\ (req[r].pc # "failed" /\ req'[r].pc = "failed") =>
              /\ UNCHANGED serviceVars
              /\ OthersUntouched(r)
         /\ (req[r].pc = "failed" /\ req'[r] # req[r]) =>
              /\ req'[r] = IdleReq
              /\ UNCHANGED serviceVars
              /\ OthersUntouched(r)
  ]_vars

C13_Witness ==
  \E r1, r2 \in Workers :
    /\ req[r1].pc = "failed" /\ req[r1].error = "SigningFailure"
    /\ req[r2].pc = "failed" /\ req[r2].error = "InvalidResource"
    /\ server.signVaultCheck /\ server.getInfo
    /\ rpc.registered = Methods

\* C14: no request waits for another: while another request for the same
\* vault is being handled, a request that is about to call checker.check or
\* signer.sign can do so; two requests for the same vault and checkpoint
\* that read the same nonce sign the same message and return the same
\* signature, and this happens for two requests handled at the same time.
C14_NoMutualExclusion ==
  \A r1, r2 \in Workers :
    /\ ( /\ r1 # r2
         /\ req[r1].method = "signvaultcheck"
         /\ req[r2].method = "signvaultcheck"
         /\ req[r1].vaultId = req[r2].vaultId
         /\ req[r2].pc = "sign" ) =>
         /\ req[r1].pc = "check" => ENABLED SvcCheck(r1)
         /\ req[r1].pc = "sign" => ENABLED SvcSign(r1)
    /\ ( /\ HasSignature(r1) /\ HasSignature(r2)
         /\ req[r1].vaultId = req[r2].vaultId
         /\ req[r1].checked[2] = req[r2].checked[2]
         /\ req[r1].nonceRead = req[r2].nonceRead ) =>
         /\ req[r1].msg = req[r2].msg
         /\ req[r1].result = req[r2].result

\* both requests are being handled (neither has returned yet)
C14_Witness ==
  \E r1, r2 \in Workers :
    /\ r1 # r2
    /\ req[r1].pc = "done" /\ req[r2].pc = "done"
    /\ HasSignature(r1) /\ HasSignature(r2)
    /\ req[r1].vaultId = req[r2].vaultId
    /\ req[r1].checked[2] = req[r2].checked[2]
    /\ req[r1].nonceRead = req[r2].nonceRead
    /\ req[r1].msg[1].message = req[r2].msg[1].message
    /\ req[r1].result[1].signature = req[r2].result[1].signature

\* the fields Signer.__init__ resolves
ConstructedSigner ==
  [chainId |-> ChainIdOfNode, account |-> AddressOfKey(SignerKey),
   operator |-> OperatorName, address |-> ContractAddr,
   gameId |-> configGameId, controller |-> VmAccount]

ConstructedServer ==
  [checker |-> "checker", signer |-> "signer", signVaultCheck |-> TRUE,
   getInfo |-> TRUE]

\* C15: once constructed, the signer's fields and the server's checker and
\* signer handles are never modified by any step; every check is called with
\* the controller and every message and getInfo answer carries the chain id,
\* contract, operator and account resolved at construction; a step of one
\* request leaves every other request as it was, and what it returns is a
\* function of its own vault id, its own check result and the nonce it reads.
C15_HandlesReadOnly ==
  [][
    /\ (signer.controller # Null => (signer = ConstructedSigner /\ signer' = signer))
    /\ (server.signVaultCheck => (server = ConstructedServer /\ server' = server))
    /\ \A r \in Workers :
         /\ (req'[r] # req[r]) => OthersUntouched(r)
         /\ (req[r].pc = "check" /\ req'[r].pc # "check") =>
              req'[r].controllerArg = VmAccount
         /\ (req[r].pc = "sign" /\ req'[r].pc = "done") =>
              LET m == Msg(ConstructedSigner, req[r].vaultId,
                           req[r].checked[2], chainNonce)
              IN  /\ req'[r].msg = <<m>>
                  /\ req'[r].result =
                       <<VaultCheckResponse(req[r].vaultId, req[r].checked[2],
                           SignMessage(AddressOfKey(SignerKey),
                                       EncodeStructuredData(m)))>>
         /\ (req[r].pc = "state" /\ req'[r].pc = "done") =>
              \E g \in GameIds :
                req'[r].result = <<InfoResponse([gameid |-> g],
                                                ConstructedSigner)>>
  ]_vars

\* a signature and a getInfo answer exist side by side
C15_Witness ==
  \E r1, r2 \in Workers :
    /\ HasSignature(r1) /\ req[r1].pc = "done"
    /\ req[r2].method = "getinfo" /\ req[r2].pc = "done"
    /\ req[r2].result[1].gsp.gameid = "g2"
    /\ signer = ConstructedSigner

\* C16: no connection to the backend is open once the scope of the call
\* that made it has been left.
C16_ConnectionClosedOnExit == ~connOpen

\* C17: hasAccountPermission is asked once, in the Signer's constructor
\* before any request, and by no later step; a request that reaches the
\* signing with a well-formed checkpoint gets its signature whether or not
\* the permission still holds, unless the nonce read fails.
C17_PermissionQueriedOnce ==
  [][
    /\ Len(log.perm) <= 1
    /\ (log'.perm # log.perm) =>
         (pcMain = "s_perm" /\ log.perm = <<>> /\ NoRequestYet)
    /\ \A r \in Workers :
         (req[r].pc = "sign" /\ req'[r] # req[r]) =>
           /\ log' = log
           /\ req'[r].error # "PermissionDenied"
           /\ (req[r].checked[2] \in WellFormed
                 /\ req'[r].error # "BackendUnavailable") =>
                (req'[r].pc = "done" /\ req'[r].result # <<>>)
  ]_vars

\* a signature issued although the permission is gone
C17_Witness ==
  \E r \in Workers :
    /\ HasSignature(r)
    /\ ~hasPermission
    /\ log.perm = <<TRUE>>

\* C18: a signVaultCheck request calls check (with the controller and the
\* vault id) once, then reads the nonce once and signs once, and never asks
\* the backend anything else; the response names the requested vault id
\* and the checkpoint its own check returned, and the signed message holds
\* that vault id and the bytes of that checkpoint.
C18_CheckThenSignThenRespond ==
  \A r \in SignRequests :
    LET q == req[r] IN
    /\ q.calls.state = 0
    /\ q.pc = "check" =>
         (q.calls = NoCalls /\ q.checked = <<>> /\ q.nonceRead = <<>>
            /\ q.msg = <<>> /\ q.result = <<>>)
    /\ q.pc = "sign" =>
         /\ q.calls = [NoCalls EXCEPT !.check = 1]
         /\ q.controllerArg = signer.controller
         /\ q.checked # <<>>
         /\ q.nonceRead = <<>> /\ q.msg = <<>> /\ q.result = <<>>
    /\ q.result # <<>> =>
         /\ q.pc = "done"
         /\ q.calls = [NoCalls EXCEPT !.check = 1, !.nonce = 1, !.sign = 1]
         /\ q.controllerArg = signer.controller
         /\ q.checked # <<>> /\ q.nonceRead # <<>> /\ q.msg # <<>>
         /\ q.result[1].vaultcheck =
              [vaultId |-> q.vaultId, checkpoint |-> q.checked[2]]
         /\ q.msg[1].message.vaultId = q.vaultId
         /\ q.msg[1].message.checkpoint = ExpectedBytes(q.checked[2])
         /\ q.msg[1].message.nonce = q.nonceRead[1]
         /\ q.result[1].signature =
              SignatureHex(SignMessage(signer.account,
                                       EncodeStructuredData(q.msg[1])))

C18_Witness ==
  \E r \in Workers :
    /\ HasSignature(r)
    /\ req[r].vaultId = 2
    /\ req[r].checked = <<TRUE, CpAUpper>>
    /\ req[r].result[1].vaultcheck = [vaultId |-> 2, checkpoint |-> CpAUpper]

\* C19: the Signer's constructor resolves the game id first, compares name
\* and version next, asks for the permission only when they match, and
\* resolves the controller only when the permission was granted; with a
\* mismatching name or version it ends with the mismatch error and the
\* permission is never asked for, whatever its value.
C19_ConstructionOrder ==
  /\ pcMain = "s_eip" => (signer.gameId # Null /\ log.perm = <<>>)
  /\ EipMismatch(contractName, contractVersion) =>
       /\ log.perm = <<>>
       /\ mainErr # "PermissionDenied"
       /\ pcMain \in {"start", "s_eip", "failed"}
       /\ signer.controller = Null
  /\ mainErr = "EIP712Mismatch" => (log.perm = <<>> /\ signer.gameId # Null)
  /\ log.perm # <<>> =>
       (~EipMismatch(contractName, contractVersion) /\ signer.gameId # Null)
  /\ mainErr = "PermissionDenied" => log.perm = <<FALSE>>
  /\ pcMain = "s_ctrl" => (log.perm = <<TRUE>> /\ signer.controller = Null)
  /\ signer.controller # Null =>
       (~EipMismatch(contractName, contractVersion) /\ log.perm = <<TRUE>>)

\* name or version differ and the permission is missing as well
C19_Witness ==
  /\ pcMain = "failed"
  /\ mainErr = "EIP712Mismatch"
  /\ EipMismatch(contractName, contractVersion)
  /\ ~hasPermission
  /\ log.perm = <<>>

====
